---- MODULE Spec2Model ----
(***************************************************************************)
(* Model of the Telegram relay bot in src/telegramm bot/bot.py: the        *)
(* per-user conversation context (GeminiBot.user_contexts), the content    *)
(* encoder (prepare_message_content), the completion client                *)
(* (call_gemini_api) and the message handlers registered on the bot.       *)
(*                                                                         *)
(* Python values are records [t, v]: t is the Python type ("None", "str",  *)
(* "list"), v the value.  A str is a sequence of characters; every         *)
(* character is a TLA+ string, and a literal of the source that no         *)
(* condition of the code looks into is written as one such character, in   *)
(* English where the source has Russian text.                              *)
(*                                                                         *)
(* Handlers run on the worker threads of telebot.TeleBot (bot.py:33        *)
(* constructs it with its defaults).  A handler is interleaved with the    *)
(* other worker at its blocking HTTP request to the completion API         *)
(* (bot.py:158): the code before the request is one step, the code from    *)
(* the response to the handler's return is another.  Each of the two is    *)
(* taken to run without a thread switch inside it; a switch between two    *)
(* statements of one step (between lines 170 and 171, say) is outside      *)
(* this model.  Calls to the Telegram API (send_message, get_file,         *)
(* download_file) are taken to succeed.                                    *)
(*                                                                         *)
(* A run starts from a bot whose users have completed 0, 9 or 10 text      *)
(* exchanges, so that the limit of 20 turns is met within a few updates.   *)
(***************************************************************************)
EXTENDS Integers, Sequences, FiniteSets, TLC

VARIABLES
    user_contexts,  \* GeminiBot.user_contexts: dict user_id -> list of turns
    task,           \* per worker thread: the handler waiting at requests.post
    last,           \* what the most recent handler step did (observation)
    appended,       \* per user: every turn appended since the last clear (history variable)
    nupd            \* number of updates dispatched so far

vars == <<user_contexts, task, last, appended, nupd>>

----------------------------------------------------------------------------
\* Bounds of the model.

\* Number of updates the bot receives in one run.
MaxUpdates == 2

\* Users that write to the bot.
Users == {1, 2}

\* How many exchanges each user has completed before the run starts.
PriorExchanges == {0, 9, 10}

----------------------------------------------------------------------------
\* Program constants.

NumThreads == 2
max_context_length == 10
ChunkSize == 4096
MaxFileSize == 20 * 1024 * 1024
TextLimit == 4000
ProbeLimit == 100

Workers == 1..NumThreads

----------------------------------------------------------------------------
\* Python values.

None == [t |-> "None", v |-> <<>>]
Str(s) == [t |-> "str", v |-> s]
List(l) == [t |-> "list", v |-> l]

\* Python truthiness of a str, bytes or None value.
Truthy(x) == x.t # "None" /\ Len(x.v) > 0

\* a or b
Or(a, b) == IF Truthy(a) THEN a ELSE b

RECURSIVE Concat(_)
Concat(ss) == IF ss = <<>> THEN <<>> ELSE Head(ss) \o Concat(Tail(ss))

\* s[:n]
Take(s, n) == SubSeq(s, 1, IF Len(s) < n THEN Len(s) ELSE n)

\* s[i:i+n] for a 0-based i
Slice(s, i, n) == SubSeq(s, i + 1, IF Len(s) < i + n THEN Len(s) ELSE i + n)

----------------------------------------------------------------------------
\* Context store (GeminiBot).

get_user_context(uc, user_id) ==
    IF user_id \in DOMAIN uc THEN uc ELSE uc @@ (user_id :> <<>>)

\* add_to_context without the length limit of lines 63-64.
add_to_context_unbounded(uc, user_id, role, content) ==
    LET uc1 == get_user_context(uc, user_id)
    IN  [uc1 EXCEPT ![user_id] = Append(@, [role |-> role, content |-> content])]

\* add_to_context with >= for > at line 63.
add_to_context_ge(uc, user_id, role, content) ==
    LET uc1 == get_user_context(uc, user_id)
        context == Append(uc1[user_id], [role |-> role, content |-> content])
    IN  [uc1 EXCEPT ![user_id] =
            IF Len(context) >= max_context_length * 2 THEN Tail(context) ELSE context]

\* add_to_context with context.pop() for context.pop(0) at line 64.
add_to_context_pop_last(uc, user_id, role, content) ==
    LET uc1 == get_user_context(uc, user_id)
        context == Append(uc1[user_id], [role |-> role, content |-> content])
    IN  [uc1 EXCEPT ![user_id] =
            IF Len(context) > max_context_length * 2
            THEN SubSeq(context, 1, Len(context) - 1) ELSE context]

add_to_context(uc, user_id, role, content) ==
    LET uc1 == get_user_context(uc, user_id)
        context == Append(uc1[user_id], [role |-> role, content |-> content])
    IN  [uc1 EXCEPT ![user_id] =
            IF Len(context) > max_context_length * 2 THEN Tail(context) ELSE context]

\* clear_context that resets the whole dict (self.user_contexts = {}).
clear_context_all(uc, user_id) ==
    IF user_id \in DOMAIN uc THEN [u \in DOMAIN uc |-> <<>>] ELSE uc

clear_context(uc, user_id) ==
    IF user_id \in DOMAIN uc THEN [uc EXCEPT ![user_id] = <<>>] ELSE uc

\* The conversation history of a user: the stored list, empty for a user never seen.
HistoryIn(uc, u) == IF u \in DOMAIN uc THEN uc[u] ELSE <<>>
History(u) == HistoryIn(user_contexts, u)

----------------------------------------------------------------------------
\* Content encoder.

B64Alphabet ==
    << "A","B","C","D","E","F","G","H","I","J","K","L","M","N","O","P",
       "Q","R","S","T","U","V","W","X","Y","Z","a","b","c","d","e","f",
       "g","h","i","j","k","l","m","n","o","p","q","r","s","t","u","v",
       "w","x","y","z","0","1","2","3","4","5","6","7","8","9","+","/" >>

\* base64.b64encode(bytes).decode('utf-8')
RECURSIVE b64encode(_)
b64encode(b) ==
    IF Len(b) = 0 THEN <<>>
    ELSE IF Len(b) = 1 THEN
        LET n == b[1] * 16
        IN  <<B64Alphabet[(n \div 64) + 1], B64Alphabet[(n % 64) + 1], "=", "=">>
    ELSE IF Len(b) = 2 THEN
        LET n == (b[1] * 256 + b[2]) * 4
        IN  <<B64Alphabet[(n \div 4096) + 1], B64Alphabet[((n \div 64) % 64) + 1],
              B64Alphabet[(n % 64) + 1], "=">>
    ELSE
        LET n == b[1] * 65536 + b[2] * 256 + b[3]
        IN  <<B64Alphabet[(n \div 262144) + 1], B64Alphabet[((n \div 4096) % 64) + 1],
              B64Alphabet[((n \div 64) % 64) + 1], B64Alphabet[(n % 64) + 1]>>
            \o b64encode(SubSeq(b, 4, Len(b)))

\* f"data:{mime_type};base64,{encoded_content}"; None when the encoding raises
\* (file_content is not bytes).
encode_file_to_base64(file_content, mime_type) ==
    IF file_content.t # "bytes" THEN None
    ELSE Str(<<"data:">> \o mime_type.v \o <<";base64,">> \o b64encode(file_content.v))

\* s.startswith(prefix)
startswith(s, prefix) ==
    Len(s.v) >= Len(prefix) /\ SubSeq(s.v, 1, Len(prefix)) = prefix

\* bytes.decode('utf-8', errors='ignore') on ASCII bytes and bytes that start no
\* valid sequence (0x80..0xFF alone), which are dropped.  A decoded character is
\* written as its code.
RECURSIVE decode(_)
decode(b) ==
    IF b = <<>> THEN <<>>
    ELSE (IF Head(b) < 128 THEN <<ToString(Head(b))>> ELSE <<>>) \o decode(Tail(b))

TextPart(s) == [type |-> "text", text |-> s]
ImagePart(url) == [type |-> "image_url", image_url |-> [url |-> url]]

MimePdf == <<"application", "/", "pdf">>
DefaultGreeting == <<"Privet!">>

prepare_message_content(text, file_data, mime_type) ==
    LET textPart == IF Truthy(text) THEN <<TextPart(text.v)>> ELSE <<>>
        filePart ==
            IF Truthy(file_data) /\ Truthy(mime_type) THEN
                IF startswith(mime_type, <<"image", "/">>) THEN
                    LET encoded_file == encode_file_to_base64(file_data, mime_type)
                    IN  IF Truthy(encoded_file) THEN <<ImagePart(encoded_file.v)>> ELSE <<>>
                ELSE
                    LET text_content ==
                            IF mime_type.v = MimePdf
                            THEN <<"[PDF file received, text cannot be extracted. Size: ",
                                   ToString(Len(file_data.v)), " bytes]">>
                            ELSE decode(file_data.v)
                    IN  <<TextPart(<<"File content (">> \o mime_type.v \o <<"):\n\n">>
                                   \o Take(text_content, TextLimit) \o <<"...">>)>>
            ELSE <<>>
        content == textPart \o filePart
    IN  IF content # <<>> THEN List(content)
        ELSE List(<<TextPart(Or(text, Str(DefaultGreeting)).v)>>)

----------------------------------------------------------------------------
\* Completion client (GeminiBot.call_gemini_api).

UserTurn(message_content) == [role |-> "user", content |-> message_content]
AssistantTurn(ai_response) == [role |-> "assistant", content |-> ai_response]

\* Lines 123-163: the context is read, the content encoded, the request built
\* and posted.
call_request(uc, user_id, text, file_data, mime_type) ==
    LET uc1 == get_user_context(uc, user_id)
        message_content == prepare_message_content(text, file_data, mime_type)
    IN  [uc |-> uc1,
         message_content |-> message_content,
         messages |-> Append(uc1[user_id], UserTurn(message_content))]

\* What requests.post does: it raises, or returns a response with a status code,
\* a body text and, when the body is JSON, the value at choices[0].message.content.
Raised(e) ==
    [exc |-> e, status_code |-> 0, text |-> <<>>,
     json |-> [valid |-> FALSE, has_content |-> FALSE, content |-> None]]
Http(status_code, text, valid, has_content, content) ==
    [exc |-> "none", status_code |-> status_code, text |-> text,
     json |-> [valid |-> valid, has_content |-> has_content, content |-> content]]

TimeoutMsg == <<"Timed out. Try again.">>
ConnectionMsg == <<"API connection error. Check the internet.">>
ErrorMsg(e) == <<"An error occurred: ", e>>
ApiErrorMsg(status_code, text) == <<"API error: ", ToString(status_code), "\n">> \o text

\* The call appends to the history exactly when it takes lines 170-171.
Succeeds(response) ==
    /\ response.exc = "none"
    /\ response.status_code = 200
    /\ response.json.valid
    /\ response.json.has_content

\* call_response that records the user turn before it looks at the response.
call_response_user_first(uc, user_id, message_content, response) ==
    LET uc1 == add_to_context(uc, user_id, "user", message_content)
    IN  IF Succeeds(response)
        THEN [uc |-> add_to_context(uc1, user_id, "assistant", response.json.content),
              ret |-> response.json.content]
        ELSE [uc |-> uc1, ret |-> Str(ErrorMsg("error"))]

\* call_response with lines 170 and 171 in the other order.
call_response_swapped(uc, user_id, message_content, response) ==
    IF Succeeds(response)
    THEN LET uc1 == add_to_context(uc, user_id, "assistant", response.json.content)
         IN  [uc |-> add_to_context(uc1, user_id, "user", message_content),
              ret |-> response.json.content]
    ELSE [uc |-> uc, ret |-> Str(ErrorMsg("error"))]

\* Lines 165-184: the response is handled and the call returns.
call_response(uc, user_id, message_content, response) ==
    IF response.exc = "Timeout" THEN [uc |-> uc, ret |-> Str(TimeoutMsg)]
    ELSE IF response.exc = "ConnectionError" THEN [uc |-> uc, ret |-> Str(ConnectionMsg)]
    ELSE IF response.exc # "none" THEN [uc |-> uc, ret |-> Str(ErrorMsg(response.exc))]
    ELSE IF response.status_code = 200 THEN
        IF ~response.json.valid THEN [uc |-> uc, ret |-> Str(ErrorMsg("JSONDecodeError"))]
        ELSE IF ~response.json.has_content THEN [uc |-> uc, ret |-> Str(ErrorMsg("'content'"))]
        ELSE
            LET ai_response == response.json.content
                uc1 == add_to_context(uc, user_id, "user", message_content)
                uc2 == add_to_context(uc1, user_id, "assistant", ai_response)
            IN  [uc |-> uc2, ret |-> ai_response]
    ELSE [uc |-> uc, ret |-> Str(ApiErrorMsg(response.status_code, response.text))]

----------------------------------------------------------------------------
\* Dispatch router: what the handlers compute.

\* relay that counts the chunks by len(response) // 4096.
relay_floor(response) ==
    IF Len(response) > ChunkSize
    THEN [k \in 1..(Len(response) \div ChunkSize) |->
            Slice(response, (k - 1) * ChunkSize, ChunkSize)]
    ELSE <<response>>

\* The relay of lines 342-346, 399-403 and 429-433: the messages sent, in order.
relay(response) ==
    IF Len(response) > ChunkSize
    THEN [k \in 1..((Len(response) + ChunkSize - 1) \div ChunkSize) |->
            Slice(response, (k - 1) * ChunkSize, ChunkSize)]
    ELSE <<response>>

NoLenMsg == "object of type 'NoneType' has no len()"
NotSubscriptableMsg == "'NoneType' object is not subscriptable"

\* A handler's try block around the relay: len(response) raises for a response
\* that is no str, and the except branch sends one error message.
relay_or_error(response, prefix) ==
    IF response.t = "str" THEN relay(response.v) ELSE << <<prefix, NoLenMsg>> >>

TextErrorPrefix == "An error occurred: "
PhotoErrorPrefix == "Error while processing the image: "
DocumentErrorPrefix == "Error while processing the file: "
StatusErrorPrefix == "Error while checking the status: "

ProbeText == <<"Answer briefly: are you working?">>
DefaultPhotoCaption == <<"What is in this picture? Describe it in detail.">>
MimeJpeg == <<"image", "/", "jpeg">>

\* status_text of lines 283-294: the context length, then test_response[:100].
StatusText(n, test_response) ==
    <<"Status. Context: ", ToString(n), " messages. API test: ">>
        \o Take(test_response, ProbeLimit) \o <<"...">>

ClearedMsg == <<"History cleared! We can start over.">>
ClearedEditMsg == <<"History cleared! You can ask a new question.">>
HelpMsg == <<"How to use the bot ...">>
TooBigMsg == <<"File too large. Maximum 20MB.">>
UnknownTypeMsg == <<"Could not determine the file type.">>

SUPPORTED_DOCUMENT_TYPES ==
    << <<"text", "/", "plain">>, <<"application", "/", "pdf">>,
       <<"application", "/", "json">>, <<"text", "/", "csv">>,
       <<"application", "/", "msword">>, <<"text", "/", "html">> >>

Range(f) == {f[i] : i \in DOMAIN f}

\* ", ".join(SUPPORTED_DOCUMENT_TYPES)
RECURSIVE join(_)
join(l) ==
    IF l = <<>> THEN <<>>
    ELSE IF Len(l) = 1 THEN l[1]
    ELSE l[1] \o <<", ">> \o join(Tail(l))

UnsupportedMsg == <<"File type not supported. Supported formats: ">> \o join(SUPPORTED_DOCUMENT_TYPES)

\* mimetypes.guess_type(file_name)[0]: by the extension, the last part of the name.
guess_type(file_name) ==
    LET ext == file_name.v[Len(file_name.v)]
    IN  IF ext = ".txt" THEN Str(<<"text", "/", "plain">>)
        ELSE IF ext = ".zip" THEN Str(<<"application", "/", "zip">>)
        ELSE IF ext = ".pdf" THEN Str(<<"application", "/", "pdf">>)
        ELSE None

\* document_checks with >= for > at line 363.
document_checks_ge(document, file_size) ==
    IF file_size >= MaxFileSize THEN [reject |-> TooBigMsg, mime_type |-> None]
    ELSE IF ~Truthy(document.mime_type) /\ document.file_name.t = "None"
    THEN [reject |-> <<DocumentErrorPrefix, "TypeError">>, mime_type |-> None]
    ELSE
        LET mime_type == Or(document.mime_type, guess_type(document.file_name))
        IN  IF ~Truthy(mime_type) THEN [reject |-> UnknownTypeMsg, mime_type |-> mime_type]
            ELSE IF mime_type.v \notin Range(SUPPORTED_DOCUMENT_TYPES)
                    /\ ~startswith(mime_type, <<"text", "/">>)
            THEN [reject |-> UnsupportedMsg, mime_type |-> mime_type]
            ELSE [reject |-> <<>>, mime_type |-> mime_type]

\* Lines 360-382 of document_handler: the rejection message sent, or <<>> when the
\* document passes the three checks; mime_type is then the resolved type.
document_checks(document, file_size) ==
    IF file_size > MaxFileSize THEN [reject |-> TooBigMsg, mime_type |-> None]
    ELSE IF ~Truthy(document.mime_type) /\ document.file_name.t = "None"
    THEN [reject |-> <<DocumentErrorPrefix, "TypeError">>, mime_type |-> None]
    ELSE
        LET mime_type == Or(document.mime_type, guess_type(document.file_name))
        IN  IF ~Truthy(mime_type) THEN [reject |-> UnknownTypeMsg, mime_type |-> mime_type]
            ELSE IF mime_type.v \notin Range(SUPPORTED_DOCUMENT_TYPES)
                    /\ ~startswith(mime_type, <<"text", "/">>)
            THEN [reject |-> UnsupportedMsg, mime_type |-> mime_type]
            ELSE [reject |-> <<>>, mime_type |-> mime_type]

\* f"Analyze the content of the file {file_name}"
DefaultDocumentCaption(file_name) ==
    <<"Analyze the content of the file ">>
        \o (IF file_name.t = "None" THEN <<"None">> ELSE file_name.v)

----------------------------------------------------------------------------
\* Inputs: the updates the platform delivers and the answers of the completion API.

Bytes(b) == [t |-> "bytes", v |-> b]

\* The text of update n, written by user u.
TextOf(u, n) == Str(<<"m", ToString(u), "-", ToString(n)>>)

\* The model's reply to update n of user u.
ReplyOf(u, n) == Str(<<"r", ToString(u), "-", ToString(n)>>)

\* message.text of an update routed to text_handler: the handler is registered
\* for text messages, whose text is never empty.
Texts(u, n) == {TextOf(u, n)}

Captions(u, n) == {None, TextOf(u, n)}

PhotoData == Bytes(<<255, 216, 255>>)
FileData == Bytes(<<104, 105, 255, 33>>)

Document(mime_type, file_name, caption) ==
    [mime_type |-> mime_type, file_name |-> file_name, caption |-> caption]

\* message.document of a document update, with file_info.file_size.
Documents(u, n) ==
    { [document |-> Document(Str(<<"text", "/", "plain">>), Str(<<"notes", ".txt">>), None),
       file_size |-> MaxFileSize + 1],
      [document |-> Document(Str(<<"text", "/", "plain">>), Str(<<"notes", ".txt">>), None),
       file_size |-> MaxFileSize],
      [document |-> Document(Str(<<"application", "/", "zip">>), Str(<<"archive", ".zip">>), TextOf(u, n)),
       file_size |-> 1024],
      [document |-> Document(Str(<<"image", "/", "png">>), Str(<<"scan", ".png">>), None),
       file_size |-> 1024],
      [document |-> Document(None, Str(<<"archive", ".zip">>), None), file_size |-> 1024],
      [document |-> Document(None, Str(<<"README">>), None), file_size |-> 1024],
      [document |-> Document(None, None, None), file_size |-> 1024],
      [document |-> Document(None, Str(<<"notes", ".txt">>), TextOf(u, n)), file_size |-> 1024],
      [document |-> Document(Str(<<"application", "/", "pdf">>), Str(<<"paper", ".pdf">>), None),
       file_size |-> 1024],
      [document |-> Document(Str(<<"text", "/", "x-python">>), Str(<<"bot", ".py">>), None),
       file_size |-> 1024] }

\* What requests.post can answer to the request of update n of user u.
Responses(u, n) ==
    { Raised("Timeout"),
      Raised("ConnectionError"),
      Raised("SSLError"),
      Http(200, <<"{...}">>, TRUE, TRUE, ReplyOf(u, n)),
      Http(200, <<"{...}">>, TRUE, TRUE, None),
      Http(200, <<"{\"error\": ...}">>, TRUE, FALSE, None),
      Http(200, <<"<html>">>, FALSE, FALSE, None),
      Http(429, <<"rate limited">>, TRUE, FALSE, None),
      Http(500, <<"<html>">>, FALSE, FALSE, None) }

\* The history of a user after k exchanges of text messages answered by the model.
RECURSIVE PriorTurns(_, _)
PriorTurns(u, k) ==
    IF k = 0 THEN <<>>
    ELSE PriorTurns(u, k - 1)
            \o <<UserTurn(prepare_message_content(TextOf(u, k - 100), None, None)),
                 AssistantTurn(ReplyOf(u, k - 100))>>

----------------------------------------------------------------------------
\* State machine.

NoTask == [handler |-> "none", user_id |-> 0, upd |-> 0,
           message_content |-> None, messages |-> <<>>]
NoRet == [t |-> "none", v |-> <<>>]

Waiting(handler, user_id, upd, req) ==
    [handler |-> handler, user_id |-> user_id, upd |-> upd,
     message_content |-> req.message_content, messages |-> req.messages]

\* The observation of a handler step: the handler and its user, whether the step
\* ended the handler, the value call_gemini_api returned in it (NoRet when it did
\* not return in this step), the messages sent, whether the step downloaded a
\* file, whether the handler entered call_gemini_api, and the response the call got.
\* document is the document of the update when the handler is document_handler.
NoDocument == [document |-> Document(None, None, None), file_size |-> 0]

Step(handler, user_id, phase, ret, sent, downloaded, called, response, document) ==
    [handler |-> handler, user_id |-> user_id, phase |-> phase, ret |-> ret,
     sent |-> sent, downloaded |-> downloaded, called |-> called, response |-> response,
     document |-> document]

NoResponse == Raised("none")

Init ==
    \E k \in [Users -> PriorExchanges] :
        /\ user_contexts = [u \in {x \in Users : k[x] > 0} |-> PriorTurns(u, k[u])]
        /\ appended = [u \in Users |-> PriorTurns(u, k[u])]
        /\ task = [w \in Workers |-> NoTask]
        /\ last = Step("none", 0, "done", NoRet, <<>>, FALSE, FALSE, NoResponse, NoDocument)
        /\ nupd = 0

\* The worker pool hands the next update to a free thread; which one makes no
\* difference, so the first free one takes it.
Idle(w) ==
    /\ nupd < MaxUpdates
    /\ task[w] = NoTask
    /\ \A v \in Workers : v < w => task[v] # NoTask

\* A handler reaches requests.post and waits for the response.
Request(w, handler, user_id, text, file_data, mime_type, downloaded, document) ==
    LET req == call_request(user_contexts, user_id, text, file_data, mime_type)
    IN  /\ user_contexts' = req.uc
        /\ task' = [task EXCEPT ![w] = Waiting(handler, user_id, nupd + 1, req)]
        /\ last' = Step(handler, user_id, "request", NoRet, <<>>, downloaded, TRUE, NoResponse,
                        document)
        /\ nupd' = nupd + 1
        /\ UNCHANGED appended

\* The response arrives: call_gemini_api returns and the handler sends its messages.
Return(w, response, ret, sent) ==
    LET t == task[w]
        res == call_response(user_contexts, t.user_id, t.message_content, response)
    IN  /\ ret = res.ret
        /\ user_contexts' = res.uc
        /\ appended' =
            IF Succeeds(response)
            THEN [appended EXCEPT ![t.user_id] =
                    @ \o <<UserTurn(t.message_content), AssistantTurn(response.json.content)>>]
            ELSE appended
        /\ task' = [task EXCEPT ![w] = NoTask]
        /\ last' = Step(t.handler, t.user_id, "done", res.ret, sent,
                        FALSE, TRUE, response, NoDocument)
        /\ UNCHANGED nupd

\* A handler that makes no completion call.
Done(handler, user_id, uc, sent, document) ==
    /\ user_contexts' = uc
    /\ last' = Step(handler, user_id, "done", NoRet, sent, FALSE, FALSE, NoResponse, document)
    /\ nupd' = nupd + 1
    /\ UNCHANGED task

\* text_handler, lines 420-426.
text_handler_request(w, u, text) ==
    /\ Idle(w)
    /\ Request(w, "text", u, text, None, None, FALSE, NoDocument)

\* text_handler, lines 426-437.
text_handler_return(w, response) ==
    /\ task[w].handler = "text"
    /\ \E ret \in {call_response(user_contexts, task[w].user_id,
                                 task[w].message_content, response).ret} :
        Return(w, response, ret, relay_or_error(ret, TextErrorPrefix))

\* photo_handler, lines 318-339.
photo_handler_request(w, u, caption) ==
    /\ Idle(w)
    /\ Request(w, "photo", u, Or(caption, Str(DefaultPhotoCaption)), PhotoData,
               Str(MimeJpeg), TRUE, NoDocument)

\* photo_handler, lines 334-350.
photo_handler_return(w, response) ==
    /\ task[w].handler = "photo"
    /\ \E ret \in {call_response(user_contexts, task[w].user_id,
                                 task[w].message_content, response).ret} :
        Return(w, response, ret, relay_or_error(ret, PhotoErrorPrefix))

\* document_handler, lines 354-396: a rejected document ends the handler.
document_handler_request(w, u, d) ==
    /\ Idle(w)
    /\ LET chk == document_checks(d.document, d.file_size)
       IN  IF chk.reject # <<>>
           THEN /\ Done("document", u, user_contexts, <<chk.reject>>, d)
                /\ UNCHANGED appended
           ELSE Request(w, "document", u,
                        Or(d.document.caption, Str(DefaultDocumentCaption(d.document.file_name))),
                        FileData, chk.mime_type, TRUE, d)

\* document_handler, lines 391-407.
document_handler_return(w, response) ==
    /\ task[w].handler = "document"
    /\ \E ret \in {call_response(user_contexts, task[w].user_id,
                                 task[w].message_content, response).ret} :
        Return(w, response, ret, relay_or_error(ret, DocumentErrorPrefix))

\* status_handler, lines 274-281.
status_handler_request(w, u) ==
    /\ Idle(w)
    /\ Request(w, "status", u, Str(ProbeText), None, None, FALSE, NoDocument)

\* status_handler_return that reads the context length before the probe.
status_handler_return_stale(w, response) ==
    /\ task[w].handler = "status"
    /\ LET res == call_response(user_contexts, task[w].user_id,
                                task[w].message_content, response)
           n == Len(get_user_context(user_contexts, task[w].user_id)[task[w].user_id])
       IN  Return(w, response, res.ret,
                  IF res.ret.t = "str" THEN <<StatusText(n, res.ret.v)>>
                  ELSE << <<StatusErrorPrefix, NotSubscriptableMsg>> >>)

\* status_handler, lines 278-298.
status_handler_return(w, response) ==
    /\ task[w].handler = "status"
    /\ LET res == call_response(user_contexts, task[w].user_id,
                                task[w].message_content, response)
           n == Len(get_user_context(res.uc, task[w].user_id)[task[w].user_id])
       IN  Return(w, response, res.ret,
                  IF res.ret.t = "str" THEN <<StatusText(n, res.ret.v)>>
                  ELSE << <<StatusErrorPrefix, NotSubscriptableMsg>> >>)

\* clear_handler, lines 226-235.
clear_handler(w, u) ==
    /\ Idle(w)
    /\ Done("clear", u, clear_context(user_contexts, u), <<ClearedMsg>>, NoDocument)
    /\ appended' = [appended EXCEPT ![u] = <<>>]

\* callback_handler, lines 302-314.
callback_handler(w, u, data) ==
    /\ Idle(w)
    /\ IF data = "help"
       THEN /\ Done("callback", u, user_contexts, <<HelpMsg>>, NoDocument)
            /\ UNCHANGED appended
       ELSE IF data = "clear"
       THEN /\ Done("callback", u, clear_context(user_contexts, u), <<ClearedEditMsg>>, NoDocument)
            /\ appended' = [appended EXCEPT ![u] = <<>>]
       ELSE /\ Done("callback", u, user_contexts, <<>>, NoDocument)
            /\ UNCHANGED appended

Next ==
    \/ \E w \in Workers, u \in Users : \E text \in Texts(u, nupd + 1) :
            text_handler_request(w, u, text)
    \/ \E w \in Workers : \E response \in Responses(task[w].user_id, task[w].upd) :
            text_handler_return(w, response)
    \/ \E w \in Workers, u \in Users : \E caption \in Captions(u, nupd + 1) :
            photo_handler_request(w, u, caption)
    \/ \E w \in Workers : \E response \in Responses(task[w].user_id, task[w].upd) :
            photo_handler_return(w, response)
    \/ \E w \in Workers, u \in Users : \E d \in Documents(u, nupd + 1) :
            document_handler_request(w, u, d)
    \/ \E w \in Workers : \E response \in Responses(task[w].user_id, task[w].upd) :
            document_handler_return(w, response)
    \/ \E w \in Workers, u \in Users : status_handler_request(w, u)
    \/ \E w \in Workers : \E response \in Responses(task[w].user_id, task[w].upd) :
            status_handler_return(w, response)
    \/ \E w \in Workers, u \in Users : clear_handler(w, u)
    \/ \E w \in Workers, u \in Users, data \in {"help", "clear"} : callback_handler(w, u, data)

Spec == Init /\ [][Next]_vars

----------------------------------------------------------------------------
\* The relay of long responses: one update, answered with a response of a length
\* around the multiples of the chunk size.

\* The longest response spans this many full chunks.
RelayMaxChunks == 3

RelayLengths ==
    (0..3) \cup {100, 2048}
        \cup {c * ChunkSize + d : c \in 1..RelayMaxChunks, d \in (-3)..3}

\* A response text of n characters, every character naming its position.
LongText(n) == [i \in 1..n |-> ToString(i)]

RelayResponses ==
    {Http(200, <<"{...}">>, TRUE, TRUE, Str(LongText(n))) : n \in RelayLengths}
        \cup {Http(502, LongText(n), FALSE, FALSE, None) : n \in {ChunkSize - 3, ChunkSize - 2}}

InitRelay ==
    /\ user_contexts = [u \in {} |-> <<>>]
    /\ appended = [u \in Users |-> <<>>]
    /\ task = [w \in Workers |-> NoTask]
    /\ last = Step("none", 0, "done", NoRet, <<>>, FALSE, FALSE, NoResponse, NoDocument)
    /\ nupd = 0

NextRelay ==
    \/ \E w \in Workers, u \in Users :
            nupd = 0 /\ text_handler_request(w, u, TextOf(u, 1))
    \/ \E w \in Workers : \E response \in RelayResponses :
            text_handler_return(w, response)
    \/ \E w \in Workers, u \in Users :
            nupd = 0 /\ photo_handler_request(w, u, None)
    \/ \E w \in Workers : \E response \in RelayResponses :
            photo_handler_return(w, response)
    \/ \E w \in Workers, u \in Users : \E d \in Documents(u, 1) :
            nupd = 0 /\ d.file_size = MaxFileSize /\ document_handler_request(w, u, d)
    \/ \E w \in Workers : \E response \in RelayResponses :
            document_handler_return(w, response)

SpecRelay == InitRelay /\ [][NextRelay]_vars

----------------------------------------------------------------------------
\* Properties.

Bound == 2 * max_context_length

\* The last n elements of s (all of s when it has fewer).
LastN(s, n) == SubSeq(s, IF Len(s) > n THEN Len(s) - n + 1 ELSE 1, Len(s))

\* Worker w reaches requests.post in this step / gets its response in this step.
Requesting(w) == task[w] = NoTask /\ task'[w] # NoTask
Returning(w) == task[w] # NoTask /\ task'[w] = NoTask

\* C1: for every user, after any sequence of handler steps (messages that succeed
\* or fail, status commands, clear commands, clear button presses), the history
\* holds at most 2 * max_context_length = 20 turns.
C1_HistoryBounded ==
    \A u \in Users : Len(History(u)) <= Bound

\* A user whose history is full and has already lost turns to the limit.
C1_Witness ==
    \E u \in Users : Len(History(u)) = Bound /\ Len(appended[u]) > Bound

C5_HistoryFifo ==
    [][\A u \in Users :
        /\ HistoryIn(user_contexts', u) = LastN(appended'[u], Bound)
        /\ \/ /\ HistoryIn(user_contexts', u) = <<>>
              /\ last'.handler \in {"clear", "callback"}
              /\ last'.user_id = u
           \/ \E added \in {<<>>, LastN(appended'[u], 2)} :
                /\ appended'[u] = appended[u] \o added
                /\ HistoryIn(user_contexts', u) = LastN(History(u) \o added, Bound)
                /\ Len(HistoryIn(user_contexts', u)) = (IF Len(History(u)) + Len(added) > Bound THEN Bound
                                       ELSE Len(History(u)) + Len(added))
      ]_vars

\* A full history whose oldest turns were evicted and that starts with a user turn.
C5_Witness ==
    \E u \in Users :
        /\ Len(appended[u]) > Bound
        /\ History(u) = SubSeq(appended[u], Len(appended[u]) - Bound + 1, Len(appended[u]))
        /\ History(u)[1] # appended[u][1]

\* C2: a completion call that fails (an exception of requests.post, a status
\* other than 200, a 200 body that is no JSON or has no choices[0].message.content)
\* leaves the history of every user as it was: neither the step that sends the
\* request nor the step that handles the failure changes a turn.
C2_FailedCallKeepsHistory ==
    [][\A w \in Workers :
        /\ Requesting(w) => \A u \in Users : HistoryIn(user_contexts', u) = History(u)
        /\ Returning(w) /\ ~Succeeds(last'.response) =>
                /\ \A u \in Users : HistoryIn(user_contexts', u) = History(u)
                /\ user_contexts' = user_contexts
      ]_vars

\* A call answered 200 without a content field has returned to a user with a
\* history.
C2_Witness ==
    /\ last.phase = "done" /\ last.called
    /\ last.response.status_code = 200 /\ last.response.json.valid
    /\ ~last.response.json.has_content
    /\ Len(History(last.user_id)) > 0

Mentions(turn, v) ==
    IF turn.content.t = "list"
    THEN \E i \in DOMAIN turn.content.v :
            LET part == turn.content.v[i]
            IN  /\ part.type = "text"
                /\ Len(part.text) >= 2
                /\ part.text[1] = "m"
                /\ part.text[2] = ToString(v)
    ELSE /\ turn.content.t = "str"
         /\ Len(turn.content.v) >= 2
         /\ turn.content.v[1] = "r"
         /\ turn.content.v[2] = ToString(v)

\* C6: a step of a handler that serves user u changes the history of no other
\* user and no call in flight for another worker, whatever else is in flight; the
\* request built for u holds no turn of another user, and neither does u's history.
C6_UsersIsolated ==
    [][/\ \A v \in Users \ {last'.user_id} :
            /\ HistoryIn(user_contexts', v) = History(v)
            /\ (v \in DOMAIN user_contexts') = (v \in DOMAIN user_contexts)
       /\ \A w \in Workers :
            /\ Requesting(w) \/ Returning(w) =>
                    \A x \in Workers \ {w} : task'[x] = task[x]
            /\ Requesting(w) =>
                    \A i \in DOMAIN task'[w].messages :
                        \A v \in Users \ {task'[w].user_id} :
                            ~Mentions(task'[w].messages[i], v)
       /\ \A u \in Users : \A i \in DOMAIN HistoryIn(user_contexts', u) :
            \A v \in Users \ {u} : ~Mentions(HistoryIn(user_contexts', u)[i], v)
      ]_vars

\* A call of one user has succeeded while a call of the other user is in flight,
\* both users having turns stored.
C6_Witness ==
    \E w \in Workers :
        /\ task[w] # NoTask
        /\ last.phase = "done" /\ last.called /\ Succeeds(last.response)
        /\ last.user_id # task[w].user_id
        /\ Len(History(task[w].user_id)) > 0
        /\ Len(task[w].messages) > 1

\* C7: call_gemini_api returns a str for every outcome of the request.
C7_AlwaysReturnsText ==
    last.phase = "done" /\ last.called => last.ret.t = "str"


\* C8: text_handler, photo_handler and document_handler send a response of
\* length L as one message when L <= 4096 and otherwise as ceil(L / 4096) messages,
\* the consecutive 4096-character chunks in order, the last one possibly shorter;
\* the messages concatenated are the response; 4096 characters go out as one
\* message, 4097 as two, the second of one character.
C8_RelayChunks ==
    (/\ last.phase = "done" /\ last.called
     /\ last.handler \in {"text", "photo", "document"}
     /\ last.ret.t = "str")
    =>
    LET r == last.ret.v
        L == Len(r)
        s == last.sent
    IN  /\ L <= 4096 => s = <<r>>
        /\ L > 4096 =>
            /\ (Len(s) - 1) * 4096 < L /\ L <= Len(s) * 4096
            /\ \A k \in 1..(Len(s) - 1) : Len(s[k]) = 4096
            /\ Len(s[Len(s)]) >= 1 /\ Len(s[Len(s)]) <= 4096
            /\ \A k \in 1..Len(s) : \A j \in 1..Len(s[k]) : s[k][j] = r[(k - 1) * 4096 + j]
        /\ Concat(s) = r
        /\ L = 4096 => Len(s) = 1
        /\ L = 4097 => Len(s) = 2 /\ Len(s[2]) = 1

\* A response of 4097 characters was relayed by document_handler.
C8_Witness ==
    /\ last.phase = "done" /\ last.handler = "document"
    /\ last.ret.t = "str" /\ Len(last.ret.v) = 4097
    /\ Len(last.sent) = 2

\* The resolved MIME type of a document: the platform's, else the one guessed from
\* the file name, None when neither gives one.
ResolvedType(d) ==
    IF Truthy(d.document.mime_type) THEN d.document.mime_type
    ELSE IF d.document.file_name.t = "None" THEN None
    ELSE guess_type(d.document.file_name)

\* The router rejects a document over 20 MiB, of unresolved type, or of a type
\* neither in the allow-list nor under text/.
Rejected(d) ==
    \/ d.file_size > 20 * 1024 * 1024
    \/ ~Truthy(ResolvedType(d))
    \/ /\ \A i \in DOMAIN SUPPORTED_DOCUMENT_TYPES : SUPPORTED_DOCUMENT_TYPES[i] # ResolvedType(d).v
       /\ ResolvedType(d).v[1] # "text"

\* C9: a rejected document gets one rejection message, no download and no
\* completion call, and no history changes; a document that passes the three
\* checks is downloaded and handed to the completion client.
C9_RejectedDocument ==
    [][(last'.handler = "document" /\ last'.document # NoDocument) =>
        IF Rejected(last'.document)
        THEN /\ last'.phase = "done"
             /\ ~last'.downloaded /\ ~last'.called
             /\ Len(last'.sent) = 1 /\ Len(last'.sent[1]) > 0
             /\ (last'.document.file_size > 20 * 1024 * 1024 => last'.sent = <<TooBigMsg>>)
             /\ task' = task
             /\ user_contexts' = user_contexts
             /\ appended' = appended
        ELSE /\ last'.phase = "request"
             /\ last'.downloaded /\ last'.called
             /\ last'.sent = <<>>
             /\ \E w \in Workers :
                    /\ Requesting(w)
                    /\ task'[w].handler = "document"
                    /\ task'[w].user_id = last'.user_id
      ]_vars

\* An application/zip document of a user with a history was rejected.
C9_Witness ==
    /\ last.handler = "document" /\ last.phase = "done" /\ ~last.called
    /\ last.document.document.mime_type = Str(<<"application", "/", "zip">>)
    /\ last.sent = <<UnsupportedMsg>>
    /\ Len(History(last.user_id)) > 0

====
